---- MODULE Spec2Model ----
(***************************************************************************)
(* Model of src/nodejs/normalize.js: the normalization pipeline            *)
(* normalizeData = reduceData ; getDataByKey ; filterDataByKeys ;          *)
(* renameKeysInData ; runCustomFunction.                                   *)
(*                                                                         *)
(* A JavaScript value is a record [t, v]:                                  *)
(*   t = "null" | "bool" | "num" | "str"   a scalar, v its payload         *)
(*   t = "undef"                           the value undefined             *)
(*   t = "seq"    v = the sequence of the array's elements                 *)
(*   t = "map"    v = the sequence of <<key, value>> pairs of the object,  *)
(*                in the order Object.keys enumerates them                 *)
(*   t = "throw"  v = the message of the error a call raised               *)
(***************************************************************************)
EXTENDS Integers, Sequences, FiniteSets, TLC

VARIABLES data, options, ret, pc, err, stages, invoked, refs

vars == <<data, options, ret, pc, err, stages, invoked, refs>>

----------------------------------------------------------------------------
(* Values *)

Null == [t |-> "null", v |-> 0]
Undef == [t |-> "undef", v |-> 0]
Bool(b) == [t |-> "bool", v |-> b]
Num(n) == [t |-> "num", v |-> n]
Str(s) == [t |-> "str", v |-> s]
Arr(s) == [t |-> "seq", v |-> s]
Map(ps) == [t |-> "map", v |-> ps]
Throw(m) == [t |-> "throw", v |-> m]

IsThrow(x) == x.t = "throw"

TypeError == "TypeError"

(* typeof x === 'object' : true of null, arrays and plain objects *)
TypeofObject(x) == x.t \in {"null", "seq", "map"}

(* JavaScript truthiness *)
Truthy(x) ==
  CASE x.t = "null" -> FALSE
    [] x.t = "undef" -> FALSE
    [] x.t = "bool" -> x.v
    [] x.t = "num" -> x.v # 0
    [] x.t = "str" -> x.v # ""
    [] OTHER -> TRUE

----------------------------------------------------------------------------
(* Strings *)

Digits == {"0", "1", "2", "3", "4", "5", "6", "7", "8", "9"}

CharAt(s, i) == SubSeq(s, i, i)

(* position of the first occurrence of sub in s, 0 when there is none *)
IndexOf(s, sub) ==
  LET ps == {i \in 1..(Len(s) - Len(sub) + 1) : SubSeq(s, i, i + Len(sub) - 1) = sub}
  IN IF ps = {} THEN 0 ELSE CHOOSE i \in ps : \A j \in ps : i <= j

(* String.prototype.includes *)
Includes(s, sub) == IndexOf(s, sub) # 0

(* String.prototype.replace(sub, rep) with a string pattern: first occurrence only *)
Replace(s, sub, rep) ==
  LET i == IndexOf(s, sub)
  IN IF i = 0 THEN s
     ELSE SubSeq(s, 1, i - 1) \o rep \o SubSeq(s, i + Len(sub), Len(s))

DigitStr(d) ==
  CASE d = 0 -> "0" [] d = 1 -> "1" [] d = 2 -> "2" [] d = 3 -> "3" [] d = 4 -> "4"
    [] d = 5 -> "5" [] d = 6 -> "6" [] d = 7 -> "7" [] d = 8 -> "8" [] d = 9 -> "9"

RECURSIVE NumStr(_)
(* String(n) for a natural number n *)
NumStr(n) == IF n < 10 THEN DigitStr(n) ELSE NumStr(n \div 10) \o DigitStr(n % 10)

(* an array index: the canonical decimal form of a natural number *)
IsArrayIndex(k) ==
  /\ Len(k) > 0
  /\ \A i \in 1..Len(k) : CharAt(k, i) \in Digits
  /\ (Len(k) > 1 => CharAt(k, 1) # "0")

RECURSIVE StrToNat(_)
StrToNat(k) ==
  IF Len(k) = 0 THEN 0
  ELSE 10 * StrToNat(SubSeq(k, 1, Len(k) - 1))
       + (CHOOSE d \in 0..9 : DigitStr(d) = CharAt(k, Len(k)))

----------------------------------------------------------------------------
(* Plain objects: own properties in Object.keys order (array indices in    *)
(* ascending order first, then the other keys in insertion order)          *)

Keys(ps) == [i \in 1..Len(ps) |-> ps[i][1]]

KeySet(ps) == {ps[i][1] : i \in 1..Len(ps)}

HasKey(ps, k) == \E i \in 1..Len(ps) : ps[i][1] = k

(* obj[k] of a plain object *)
Get(ps, k) ==
  IF HasKey(ps, k) THEN ps[CHOOSE i \in 1..Len(ps) : ps[i][1] = k][2] ELSE Undef

(* obj[k] = x *)
Put(ps, k, x) ==
  IF HasKey(ps, k)
  THEN [i \in 1..Len(ps) |-> IF ps[i][1] = k THEN <<k, x>> ELSE ps[i]]
  ELSE IF IsArrayIndex(k)
       THEN LET before == {i \in 1..Len(ps) :
                             IsArrayIndex(ps[i][1]) /\ StrToNat(ps[i][1]) < StrToNat(k)}
                n == Cardinality(before)
            IN SubSeq(ps, 1, n) \o << <<k, x>> >> \o SubSeq(ps, n + 1, Len(ps))
       ELSE Append(ps, <<k, x>>)

(* delete obj[k] *)
Delete(ps, k) ==
  LET keep == {i \in 1..Len(ps) : ps[i][1] # k}
      F[n \in 0..Len(ps)] ==
        IF n = 0 THEN <<>>
        ELSE IF n \in keep THEN Append(F[n - 1], ps[n]) ELSE F[n - 1]
  IN F[Len(ps)]

(* the object built by assigning the pairs in order *)
Obj(ps) ==
  LET F[n \in 0..Len(ps)] ==
        IF n = 0 THEN <<>> ELSE Put(F[n - 1], ps[n][1], ps[n][2])
  IN Map(F[Len(ps)])

(* Object.keys(x) with the values x[k], for any x that is not null/undefined *)
OwnEntries(x) ==
  CASE x.t = "map" -> x.v
    [] x.t = "seq" -> [i \in 1..Len(x.v) |-> <<NumStr(i - 1), x.v[i]>>]
    [] x.t = "str" -> [i \in 1..Len(x.v) |-> <<NumStr(i - 1), Str(CharAt(x.v, i))>>]
    [] OTHER -> <<>>

(* x[k] (property read) for any x that is not null/undefined; the          *)
(* properties inherited from the prototypes are left out except length    *)
GetProp(x, k) ==
  CASE x.t = "map" -> Get(x.v, k)
    [] x.t \in {"seq", "str"} ->
         IF k = "length" THEN Num(Len(x.v)) ELSE Get(OwnEntries(x), k)
    [] OTHER -> Undef

RECURSIVE Canon(_)
(* the value up to the order of the keys (deep equality of the tests) *)
Canon(x) ==
  CASE x.t = "map" ->
         [t |-> "map", v |-> [k \in KeySet(x.v) |-> Canon(Get(x.v, k))]]
    [] x.t = "seq" ->
         [t |-> "seq", v |-> [i \in 1..Len(x.v) |-> Canon(x.v[i])]]
    [] OTHER -> x

DeepEqual(x, y) == Canon(x) = Canon(y)

----------------------------------------------------------------------------
(* String(x): the property key a value turns into *)

RECURSIVE ToKey(_)
ToKey(x) ==
  CASE x.t = "str" -> x.v
    [] x.t = "num" -> NumStr(x.v)
    [] x.t = "bool" -> IF x.v THEN "true" ELSE "false"
    [] x.t = "null" -> "null"
    [] x.t = "undef" -> "undefined"
    [] x.t = "map" -> "[object Object]"
    [] x.t = "seq" ->
         LET el(i) == IF x.v[i].t \in {"null", "undef"} THEN "" ELSE ToKey(x.v[i])
             J[n \in 0..Len(x.v)] ==
               IF n = 0 THEN ""
               ELSE IF n = 1 THEN el(1) ELSE J[n - 1] \o "," \o el(n)
         IN J[Len(x.v)]

(* util.convertArrayToMap(data, key, {keyPrefix}): the mapping keyed by    *)
(* each element's key field (with the optional prefix), holding the        *)
(* elements themselves                                                     *)
convertArrayToMap(d, key, keyPrefix) ==
  IF \E i \in 1..Len(d.v) : d.v[i].t \in {"null", "undef"} THEN Throw(TypeError)
  ELSE LET keyName(i) == IF keyPrefix # "" THEN keyPrefix \o ToKey(GetProp(i, key))
                         ELSE ToKey(GetProp(i, key))
           F[n \in 0..Len(d.v)] ==
             IF n = 0 THEN <<>> ELSE Put(F[n - 1], keyName(d.v[n]), d.v[n])
       IN Map(F[Len(d.v)])

----------------------------------------------------------------------------
(* reduceData *)

keysToReduceShort == <<"nestedStats", "value", "description">>

keysToReduce == <<"nestedStats", "value", "description", "color">>

(* the key of an entries child: k.replace('https://localhost/', '')        *)
(*                               .replace('mgmt/tm/', '')                  *)
entryKeyHostOnly(k) == Replace(k, "https://localhost/", "")

entryKey(k) == Replace(Replace(k, "https://localhost/", ""), "mgmt/tm/", "")

(* the mapping built from data.entries: ret[kM] = v for each key *)
entriesRet(e) ==
  LET ps == OwnEntries(e)
      F[n \in 0..Len(ps)] ==
        IF n = 0 THEN <<>> ELSE Put(F[n - 1], entryKey(ps[n][1]), ps[n][2])
  IN Map(F[Len(ps)])

catmOnPrefix(o) ==
  o.convertArrayToMap.t # "undef" /\ o.convertArrayToMap.keyNamePrefix # ""

catmOnAlways(o) == o.convertArrayToMap.t # "undef"

(* options.convertArrayToMap is set and has a keyName *)
catmOn(o) == o.convertArrayToMap.t # "undef" /\ o.convertArrayToMap.keyName # ""

hasEntriesMapOnly(d) == d.t = "map" /\ Get(d.v, "entries").t = "map"

(* data.entries && !Array.isArray(data) *)
hasEntries(d) == d.t = "map" /\ Truthy(Get(d.v, "entries"))

RECURSIVE reduceDataNoRecurse(_, _)
(* reduceData with `return item` for `return reduceData(item, options)` *)
reduceDataNoRecurse(d, o) ==
  IF d.t \in {"null", "undef"} THEN Throw(TypeError)
  ELSE IF /\ Len(OwnEntries(d)) = 1
          /\ \E i \in 1..Len(keysToReduce) : GetProp(d, keysToReduce[i]) # Undef
  THEN LET i == CHOOSE i \in 1..Len(keysToReduce) : GetProp(d, keysToReduce[i]) # Undef
       IN IF GetProp(d, keysToReduce[i]).t = "null" THEN Throw(TypeError)
          ELSE GetProp(d, keysToReduce[i])
  ELSE IF hasEntries(d)
  THEN reduceDataNoRecurse(entriesRet(Get(d.v, "entries")), o)
  ELSE IF d.t = "seq"
  THEN IF catmOn(o)
       THEN LET m == convertArrayToMap(d, o.convertArrayToMap.keyName,
                                       o.convertArrayToMap.keyNamePrefix)
            IN IF IsThrow(m) THEN m ELSE reduceDataNoRecurse(m, o)
       ELSE LET r == [i \in 1..Len(d.v) |-> reduceDataNoRecurse(d.v[i], o)]
            IN IF \E i \in 1..Len(r) : IsThrow(r[i])
               THEN Throw(TypeError)
               ELSE Arr(r)
  ELSE IF d.t = "map"
  THEN LET r == [i \in 1..Len(d.v) |-> <<d.v[i][1], reduceDataNoRecurse(d.v[i][2], o)>>]
       IN IF \E i \in 1..Len(r) : IsThrow(r[i][2])
          THEN Throw(TypeError)
          ELSE Obj(r)
  ELSE d

RECURSIVE reduceData(_, _)
reduceData(d, o) ==
  IF d.t \in {"null", "undef"} THEN Throw(TypeError)
  ELSE IF /\ Len(OwnEntries(d)) = 1
          /\ \E i \in 1..Len(keysToReduce) : GetProp(d, keysToReduce[i]) # Undef
  THEN LET i == CHOOSE i \in 1..Len(keysToReduce) :
                  /\ GetProp(d, keysToReduce[i]) # Undef
                  /\ \A j \in 1..(i - 1) : GetProp(d, keysToReduce[j]) = Undef
       IN reduceData(GetProp(d, keysToReduce[i]), o)
  ELSE IF hasEntries(d)
  THEN reduceData(entriesRet(Get(d.v, "entries")), o)
  ELSE IF d.t = "seq"
  THEN IF catmOn(o)
       THEN LET m == convertArrayToMap(d, o.convertArrayToMap.keyName,
                                       o.convertArrayToMap.keyNamePrefix)
            IN IF IsThrow(m) THEN m ELSE reduceData(m, o)
       ELSE LET r == [i \in 1..Len(d.v) |-> reduceData(d.v[i], o)]
            IN IF \E i \in 1..Len(r) : IsThrow(r[i])
               THEN r[CHOOSE i \in 1..Len(r) :
                        IsThrow(r[i]) /\ \A j \in 1..(i - 1) : ~IsThrow(r[j])]
               ELSE Arr(r)
  ELSE IF d.t = "map"
  THEN LET r == [i \in 1..Len(d.v) |-> <<d.v[i][1], reduceData(d.v[i][2], o)>>]
       IN IF \E i \in 1..Len(r) : IsThrow(r[i][2])
          THEN r[CHOOSE i \in 1..Len(r) :
                   IsThrow(r[i][2]) /\ \A j \in 1..(i - 1) : ~IsThrow(r[j][2])][2]
          ELSE Obj(r)
  ELSE d

----------------------------------------------------------------------------
(* getDataByKey *)

STATS_KEY_SEP == "::"

RECURSIVE Split(_, _)
(* String.prototype.split(sep) for a non-empty separator *)
Split(s, sep) ==
  LET i == IndexOf(s, sep)
  IN IF i = 0 THEN <<s>>
     ELSE <<SubSeq(s, 1, i - 1)>> \o Split(SubSeq(s, i + Len(sep), Len(s)), sep)

MissingKey == Str("missing key")

(* i in x, for an object x that is not null; of the inherited properties   *)
(* only the length of an array is modelled                                 *)
HasProp(x, i) == GetProp(x, i) # Undef

(* one round of the forEach of getDataByKey *)
getDataByKeyStep(r, i) ==
  IF IsThrow(r) THEN r
  ELSE IF TypeofObject(r)
  THEN IF r.t = "null" THEN Throw(TypeError)
       ELSE IF HasProp(r, i) THEN GetProp(r, i) ELSE MissingKey
  ELSE MissingKey

getDataByKey(d, key) ==
  LET keys == Split(key, STATS_KEY_SEP)
      F[n \in 0..Len(keys)] ==
        IF n = 0 THEN d ELSE getDataByKeyStep(F[n - 1], keys[n])
  IN F[Len(keys)]

----------------------------------------------------------------------------
(* filterDataByKeys *)

deleteKeyLastOnly(k, keys) == Len(keys) = 0 \/ ~Includes(k, keys[Len(keys)])

(* deleteKey after the inner forEach: no entry of keys is included in k *)
deleteKey(k, keys) == ~ \E j \in 1..Len(keys) : Includes(k, keys[j])

RECURSIVE filterDataByKeys(_, _)
filterDataByKeys(d, keys) ==
  IF d.t = "null" THEN Throw(TypeError)
  ELSE IF d.t = "map"
  THEN LET ks == Keys(d.v)
           F[n \in 0..Len(ks)] ==
             IF n = 0 THEN d
             ELSE IF IsThrow(F[n - 1]) THEN F[n - 1]
             ELSE IF deleteKey(ks[n], keys) THEN Map(Delete(F[n - 1].v, ks[n]))
             ELSE LET sub == filterDataByKeys(Get(F[n - 1].v, ks[n]), keys)
                  IN IF IsThrow(sub) THEN sub ELSE Map(Put(F[n - 1].v, ks[n], sub))
       IN F[Len(ks)]
  ELSE d

----------------------------------------------------------------------------
(* renameKeysInData *)

(* A regular expression is one of three shapes over a literal lit:         *)
(*   cap = "none"    /lit/                                                 *)
(*   cap = "digits"  /lit(\d+)/                                            *)
(*   cap = "rest"    /lit(R)/ with R the dot-star: lit, then any rest      *)
RegExp(lit, cap) == [t |-> "regex", lit |-> lit, cap |-> cap]

(* the longest run of digits of s from position i on *)
DigitRun(s, i) ==
  LET ends == {j \in (i - 1)..Len(s) : \A n \in i..j : CharAt(s, n) \in Digits}
  IN SubSeq(s, i, CHOOSE j \in ends : \A m \in ends : m <= j)

NoMatch == <<>>

(* k.match(re): the sequence <<whole match, group 1, ...>> of the leftmost *)
(* match, NoMatch (null) when there is none                                *)
Match(k, re) ==
  CASE re.cap = "none" ->
         IF Includes(k, re.lit) THEN <<re.lit>> ELSE NoMatch
    [] re.cap = "rest" ->
         LET i == IndexOf(k, re.lit)
             rest == SubSeq(k, i + Len(re.lit), Len(k))
         IN IF i = 0 THEN NoMatch ELSE <<re.lit \o rest, rest>>
    [] re.cap = "digits" ->
         LET ps == {i \in 1..(Len(k) - Len(re.lit)) :
                      /\ SubSeq(k, i, i + Len(re.lit) - 1) = re.lit
                      /\ CharAt(k, i + Len(re.lit)) \in Digits}
             i == CHOOSE i \in ps : \A j \in ps : i <= j
             run == DigitRun(k, i + Len(re.lit))
         IN IF ps = {} THEN NoMatch ELSE <<re.lit \o run, run>>

(* checkForMatch[group] as a property key *)
GroupKey(m, group) == IF group + 1 <= Len(m) THEN m[group + 1] ELSE ToKey(Undef)

(* patterns[pK].pattern ? patterns[pK].pattern : patterns[pK] *)
patternOf(e) == IF e.t = "regex" THEN e ELSE e.pattern

(* patterns[pK].group ? patterns[pK].group : 0 *)
groupOf(e) == IF e.t = "regex" THEN 0 ELSE e.group

(* pattern entry n applies to the key k *)
patternHits(k, patterns, n) ==
  /\ Includes(k, patterns[n][1])
  /\ Match(k, patternOf(patterns[n][2])) # NoMatch

newKeyFirstHit(k, patterns) ==
  LET hits == {n \in 1..Len(patterns) : patternHits(k, patterns, n)}
      first == CHOOSE n \in hits : \A m \in hits : n <= m
  IN IF hits = {} THEN k
     ELSE GroupKey(Match(k, patternOf(patterns[first][2])), groupOf(patterns[first][2]))

(* the key under which renameKeysInData stores data[k]: the group of the   *)
(* last pattern that hits, k itself when none does                         *)
newKey(k, patterns) ==
  LET hits == {n \in 1..Len(patterns) : patternHits(k, patterns, n)}
      last == CHOOSE n \in hits : \A m \in hits : m <= n
  IN IF hits = {} THEN k
     ELSE GroupKey(Match(k, patternOf(patterns[last][2])), groupOf(patterns[last][2]))

RECURSIVE renameKeysInDataDeep(_, _)
(* renameKeysInData that also renames inside the elements of an array *)
renameKeysInDataDeep(d, patterns) ==
  IF d.t = "null" THEN Throw(TypeError)
  ELSE IF d.t = "map"
  THEN LET F[n \in 0..Len(d.v)] ==
             IF n = 0 THEN Map(<<>>)
             ELSE IF IsThrow(F[n - 1]) THEN F[n - 1]
             ELSE LET sub == renameKeysInDataDeep(d.v[n][2], patterns)
                  IN IF IsThrow(sub) THEN sub
                     ELSE Map(Put(F[n - 1].v, newKey(d.v[n][1], patterns), sub))
       IN F[Len(d.v)]
  ELSE IF d.t = "seq"
  THEN LET r == [i \in 1..Len(d.v) |-> renameKeysInDataDeep(d.v[i], patterns)]
       IN IF \E i \in 1..Len(r) : IsThrow(r[i]) THEN Throw(TypeError) ELSE Arr(r)
  ELSE d

RECURSIVE renameKeysInData(_, _)
renameKeysInData(d, patterns) ==
  IF d.t = "null" THEN Throw(TypeError)
  ELSE IF d.t = "map"
  THEN LET F[n \in 0..Len(d.v)] ==
             IF n = 0 THEN Map(<<>>)
             ELSE IF IsThrow(F[n - 1]) THEN F[n - 1]
             ELSE LET sub == renameKeysInData(d.v[n][2], patterns)
                  IN IF IsThrow(sub) THEN sub
                     ELSE Map(Put(F[n - 1].v, newKey(d.v[n][1], patterns), sub))
       IN F[Len(d.v)]
  ELSE d

----------------------------------------------------------------------------
(* runCustomFunction *)

NamedArgumentError == "Named argument (data) is not allowed"

FailedPrefix == "runCustomFunction failed: "

NotAFunction == "TypeError: normalizeUtil[options.func] is not a function"

argsHasDataFirst(a) ==
  /\ Truthy(a) /\ TypeofObject(a)
  /\ Len(OwnEntries(a)) > 0 /\ OwnEntries(a)[1][1] = "data"

(* the forEach over Object.keys(optionalArgs) meets the key 'data' *)
argsHasData(a) == Truthy(a) /\ TypeofObject(a) /\ HasKey(OwnEntries(a), "data")

(* args = { data } followed by args[k] = optionalArgs[k] *)
customArgs(d, a) ==
  LET ps == IF Truthy(a) /\ TypeofObject(a) THEN OwnEntries(a) ELSE <<>>
      F[n \in 0..Len(ps)] ==
        IF n = 0 THEN <<<<"data", d>>>> ELSE Put(F[n - 1], ps[n][1], ps[n][2])
  IN Map(F[Len(ps)])

(* the functions normalizeUtil exports *)
Registry == {"getFirstKey", "getSum"}

(* what a call of a registered function can do: return a value or throw *)
RegistryOutcomes(args) == {Get(args.v, "data"), Num(0), Throw("Error: invalid data")}

(* the functions every plain object inherits from Object.prototype *)
InheritedFunctions == {"toString", "constructor"}

(* normalizeUtil[func](args) for an inherited function *)
InheritedCall(func, args) ==
  IF func = "toString" THEN Str("[object Object]") ELSE args

----------------------------------------------------------------------------
(* Identity of containers: which object or array of the heap a node is.    *)
(* A container of the caller's tree is named by its path from the root;    *)
(* the containers the code creates are told apart from those only.         *)

InputId(path) == [input |-> TRUE, path |-> path]

NewId == [input |-> FALSE, path |-> <<>>]

Tagged(x, id) == [t |-> x.t, v |-> x.v, id |-> id]

RECURSIVE Ref(_, _)
(* the argument data of normalizeData: the tree d found at path, every     *)
(* container carrying its identity                                         *)
Ref(d, path) ==
  CASE d.t = "map" ->
         Tagged(Map([i \in 1..Len(d.v) |->
                       <<d.v[i][1], Ref(d.v[i][2], Append(path, d.v[i][1]))>>]),
                InputId(path))
    [] d.t = "seq" ->
         Tagged(Arr([i \in 1..Len(d.v) |-> Ref(d.v[i], Append(path, NumStr(i - 1)))]),
                InputId(path))
    [] OTHER -> d

RECURSIVE Strip(_)
(* the value of a tree of identified containers *)
Strip(a) ==
  CASE a.t = "map" -> Map([i \in 1..Len(a.v) |-> <<a.v[i][1], Strip(a.v[i][2])>>])
    [] a.t = "seq" -> Arr([i \in 1..Len(a.v) |-> Strip(a.v[i])])
    [] OTHER -> a

RECURSIVE InputIds(_)
(* the containers of the caller's tree that are reachable from a *)
InputIds(a) ==
  CASE a.t = "map" ->
         (IF a.id.input THEN {a.id.path} ELSE {})
           \cup UNION {InputIds(a.v[i][2]) : i \in 1..Len(a.v)}
    [] a.t = "seq" ->
         (IF a.id.input THEN {a.id.path} ELSE {})
           \cup UNION {InputIds(a.v[i]) : i \in 1..Len(a.v)}
    [] OTHER -> {}

newRetOfData(d) == d.id

(* let ret = Array.isArray(data) ? [] : {} : a container made by the call *)
newRet(d) == NewId

RECURSIVE reduceDataRefs(_, _)
(* reduceData on identified containers, where reduceData returns *)
reduceDataRefs(d, o) ==
  IF /\ Len(OwnEntries(d)) = 1
     /\ \E i \in 1..Len(keysToReduce) : GetProp(d, keysToReduce[i]) # Undef
  THEN LET i == CHOOSE i \in 1..Len(keysToReduce) :
                  /\ GetProp(d, keysToReduce[i]) # Undef
                  /\ \A j \in 1..(i - 1) : GetProp(d, keysToReduce[j]) = Undef
       IN reduceDataRefs(GetProp(d, keysToReduce[i]), o)
  ELSE IF hasEntries(d)
  THEN reduceDataRefs(Tagged(entriesRet(Get(d.v, "entries")), newRet(d)), o)
  ELSE IF d.t = "seq"
  THEN IF catmOn(o)
       THEN reduceDataRefs(Tagged(convertArrayToMap(d, o.convertArrayToMap.keyName,
                                                    o.convertArrayToMap.keyNamePrefix),
                                  NewId), o)
       ELSE Tagged(Arr([i \in 1..Len(d.v) |-> reduceDataRefs(d.v[i], o)]), newRet(d))
  ELSE IF d.t = "map"
  THEN Tagged(Obj([i \in 1..Len(d.v) |-> <<d.v[i][1], reduceDataRefs(d.v[i][2], o)>>]),
              newRet(d))
  ELSE d

RECURSIVE Deletions(_, _)
(* the pairs <<container, key>> of the delete ret[k] that filterDataByKeys *)
(* runs on d                                                               *)
Deletions(d, keys) ==
  IF d.t = "map"
  THEN {<<d.id, d.v[i][1]>> : i \in {j \in 1..Len(d.v) : deleteKey(d.v[j][1], keys)}}
       \cup UNION {Deletions(d.v[i][2], keys) :
                     i \in {j \in 1..Len(d.v) : ~deleteKey(d.v[j][1], keys)}}
  ELSE {}

RECURSIVE filterDataByKeysRefs(_, _)
(* filterDataByKeys on identified containers: const ret = data, so the     *)
(* result is the container it was given                                    *)
filterDataByKeysRefs(d, keys) ==
  IF d.t = "map"
  THEN LET ks == Keys(d.v)
           F[n \in 0..Len(ks)] ==
             IF n = 0 THEN d.v
             ELSE IF deleteKey(ks[n], keys) THEN Delete(F[n - 1], ks[n])
             ELSE Put(F[n - 1], ks[n], filterDataByKeysRefs(Get(F[n - 1], ks[n]), keys))
       IN Tagged(Map(F[Len(ks)]), d.id)
  ELSE d

RECURSIVE DeleteAt(_, _, _)
(* the caller's tree d, found at path, once the deletions dels are done *)
DeleteAt(d, path, dels) ==
  CASE d.t = "map" ->
         LET F[n \in 0..Len(d.v)] ==
               IF n = 0 THEN <<>>
               ELSE IF <<InputId(path), d.v[n][1]>> \in dels THEN F[n - 1]
               ELSE Append(F[n - 1],
                           <<d.v[n][1], DeleteAt(d.v[n][2], Append(path, d.v[n][1]), dels)>>)
         IN Map(F[Len(d.v)])
    [] d.t = "seq" ->
         Arr([i \in 1..Len(d.v) |-> DeleteAt(d.v[i], Append(path, NumStr(i - 1)), dels)])
    [] OTHER -> d

RECURSIVE renameKeysInDataRefs(_, _)
(* renameKeysInData on identified containers: a mapping is rebuilt in a    *)
(* new container, anything else is returned itself                         *)
renameKeysInDataRefs(d, patterns) ==
  IF d.t = "map"
  THEN LET F[n \in 0..Len(d.v)] ==
             IF n = 0 THEN <<>>
             ELSE Put(F[n - 1], newKey(d.v[n][1], patterns),
                      renameKeysInDataRefs(d.v[n][2], patterns))
       IN Tagged(Map(F[Len(d.v)]), NewId)
  ELSE d

----------------------------------------------------------------------------
(* The payloads and options of a call *)

MaxDepth == 2

Leaves == {Num(0), Num(5), Str("a"), Null}

SmallLeaves == {Num(5), Str("a")}

GenKeys == {"value", "entries", "name", "tmm_0", "tmm_1", "mgmt/tm/value"}

(* the elements of the arrays that convertArrayToMap pivots *)
NamedItems ==
  {Obj(<< <<"name", n>>, <<k, x>> >>) :
     n \in {Str("a"), Str("b")}, k \in {"value", "tmm_0"}, x \in SmallLeaves}

RECURSIVE Level(_)
(* the payloads nested at most d containers deep *)
Level(d) ==
  IF d = 0 THEN Leaves \cup {Obj(<<>>), Arr(<<>>)}
  ELSE LET sub == Level(d - 1)
       IN sub
          \cup {Obj(<< <<k, x>> >>) : k \in GenKeys, x \in sub}
          \cup {Arr(<<x>>) : x \in sub}
          \cup (IF d = 1
                THEN {Obj(<< <<p[1], x>>, <<p[2], y>> >>) :
                        p \in {q \in GenKeys \X GenKeys : q[1] # q[2]},
                        x \in SmallLeaves, y \in SmallLeaves}
                     \cup {Arr(<<x, y>>) : x \in SmallLeaves, y \in SmallLeaves}
                ELSE IF d = 2
                THEN {Arr(<<x, y>>) : x \in NamedItems, y \in NamedItems}
                ELSE {})

ExEntries ==
  Obj(<< <<"entries",
           Obj(<< <<"https://localhost/mgmt/tm/sys/foo", Obj(<< <<"value", Num(1)>> >>)>> >>)>> >>)

ExTmmInfo ==
  Obj(<< <<"entries",
           Obj(<< <<"https://localhost/mgmt/tm/sys/tmm-info/0.0/stats",
                    Obj(<< <<"nestedStats",
                             Obj(<< <<"entries",
                                      Obj(<< <<"oneMinAverageSystem",
                                               Obj(<< <<"value", Num(5)>> >>)>> >>)>> >>)>> >>)>> >>)>> >>)

ExPivot ==
  Arr(<< Obj(<< <<"name", Str("a")>>, <<"value", Num(1)>> >>),
         Obj(<< <<"name", Str("b")>>, <<"value", Num(2)>> >>) >>)

ExFilter == Obj(<< <<"cpuUtil", Num(1)>>, <<"memUtil", Num(2)>>, <<"other", Num(3)>> >>)

ExRename == Obj(<< <<"tmm_0", Num(5)>> >>)

ExNested ==
  Obj(<< <<"tmm_0", Obj(<< <<"tmm_1", Num(1)>>, <<"name", Arr(<<ExRename>>)>> >>)>>,
         <<"tmm_1", Num(2)>>, <<"0", Str("a")>> >>)

ExSeqOfMaps ==
  Arr(<< ExRename, Obj(<< <<"tmm_1", Obj(<< <<"tmm_0", Num(1)>> >>)>> >>) >>)

ExChain ==
  Obj(<< <<"nestedStats",
           Obj(<< <<"description",
                    Obj(<< <<"color", Obj(<< <<"value", Num(5)>> >>)>> >>)>> >>)>> >>)

ExEntriesKind ==
  Obj(<< <<"kind", Str("x")>>,
         <<"entries",
           Obj(<< <<"https://localhost/mgmt/tm/sys/a", Obj(<< <<"value", Num(1)>> >>)>> >>)>> >>)

ExEntriesTrue == Obj(<< <<"entries", Bool(TRUE)>>, <<"x", Num(1)>> >>)

ExEntriesFalse ==
  Obj(<< <<"entries", Bool(FALSE)>>, <<"x", Obj(<< <<"value", Num(1)>> >>)>> >>)

Examples ==
  {ExEntries, ExTmmInfo, ExPivot, ExFilter, ExRename, ExNested, ExSeqOfMaps, ExChain,
   ExEntriesKind, ExEntriesTrue, ExEntriesFalse}

NoOptions ==
  [key |-> Undef, filterByKeys |-> Undef, renameKeysByPattern |-> Undef,
   convertArrayToMap |-> Undef, runCustomFunction |-> Undef]

Catm(keyName, prefix) == [t |-> "catm", keyName |-> keyName, keyNamePrefix |-> prefix]

CatmOpts == {Undef, Catm("name", ""), Catm("name", "p/"), Catm("", "p/")}

KeyOpts == {Str("tmm_0"), Str("0"), Str("tmm_0::name::length"), Str("name::0::tmm_0")}

FilterList(ks) == [t |-> "seq", v |-> ks]

FilterOpts ==
  {FilterList(<<"tmm">>), FilterList(<<"Util">>), FilterList(<<"util">>),
   FilterList(<<"name", "0">>)}

PatternObj(re, group) == [t |-> "obj", pattern |-> re, group |-> group]

Patterns(ps) == [t |-> "map", v |-> ps]

PGroup1 == <<"tmm", PatternObj(RegExp("tmm_", "digits"), 1)>>

PWhole == <<"tmm_", PatternObj(RegExp("tmm_", "digits"), 0)>>

PBare == <<"mm", RegExp("tmm", "none")>>

PRest == <<"_", PatternObj(RegExp("m_", "rest"), 1)>>

PNoHit == <<"name", PatternObj(RegExp("tmm", "none"), 0)>>

PNoGroup == <<"val", PatternObj(RegExp("value", "none"), 1)>>

RenameOpts ==
  {Patterns(<<PGroup1>>), Patterns(<<PWhole>>), Patterns(<<PBare>>),
   Patterns(<<PGroup1, PBare>>), Patterns(<<PBare, PRest>>),
   Patterns(<<PNoHit, PNoGroup>>)}

Rcf(name, args) == [t |-> "rcf", name |-> name, args |-> args]

RcfOpts ==
  {Rcf("getFirstKey", Undef),
   Rcf("getSum", Obj(<< <<"x", Num(1)>> >>)),
   Rcf("getSum", Obj(<< <<"x", Num(1)>>, <<"data", Num(2)>> >>)),
   Rcf("noSuchFunction", Obj(<< <<"data", Null>> >>)),
   Rcf("noSuchFunction", Undef),
   Rcf("toString", Undef),
   Rcf("constructor", Obj(<< <<"x", Num(1)>> >>))}

(* the options of the calls that reach the later stages *)
StageOptions ==
  {[NoOptions EXCEPT !.key = k] : k \in KeyOpts}
  \cup {[NoOptions EXCEPT !.filterByKeys = f] : f \in FilterOpts}
  \cup {[NoOptions EXCEPT !.renameKeysByPattern = r] : r \in RenameOpts}
  \cup {[NoOptions EXCEPT !.runCustomFunction = c] : c \in RcfOpts}
  \cup {[NoOptions EXCEPT !.filterByKeys = f, !.renameKeysByPattern = r] :
          f \in FilterOpts, r \in RenameOpts}
  \cup {[NoOptions EXCEPT !.key = k, !.runCustomFunction = c] :
          k \in {Str("tmm_0")}, c \in RcfOpts}
  \cup {[key |-> k, filterByKeys |-> f, renameKeysByPattern |-> r,
         convertArrayToMap |-> Catm("name", ""), runCustomFunction |-> c] :
          k \in {Str("a"), Str("b::tmm_0")}, f \in {FilterList(<<"tmm">>)},
          r \in {Patterns(<<PGroup1>>), Patterns(<<PBare>>)},
          c \in {Rcf("getFirstKey", Undef), Rcf("constructor", Obj(<< <<"x", Num(1)>> >>))}}

----------------------------------------------------------------------------
(* normalizeData, one action per statement *)

Init ==
  /\ \/ /\ data \in Level(MaxDepth) \cup Examples
        /\ options \in {[NoOptions EXCEPT !.convertArrayToMap = c] : c \in CatmOpts}
     \/ /\ data \in Level(MaxDepth - 1) \cup Examples
        /\ options \in StageOptions
  /\ ret = Undef
  /\ pc = "reduce"
  /\ err = ""
  /\ stages = <<>>
  /\ invoked = ""
  /\ refs = Undef

Fail(msg) ==
  /\ pc' = "failed"
  /\ err' = msg
  /\ ret' = Undef

(* let ret = reduceData(data, { convertArrayToMap: options.convertArrayToMap }) *)
Reduce ==
  /\ pc = "reduce"
  /\ LET r == reduceData(data, [convertArrayToMap |-> options.convertArrayToMap])
     IN IF IsThrow(r) THEN Fail(r.v) /\ refs' = Undef
        ELSE /\ ret' = r /\ pc' = "key" /\ err' = err
             /\ refs' = reduceDataRefs(Ref(data, <<>>),
                                       [convertArrayToMap |-> options.convertArrayToMap])
  /\ stages' = Append(stages, "reduce")
  /\ UNCHANGED <<data, options, invoked>>

GetDataByKeyOfInput ==
  /\ pc = "key"
  /\ IF Truthy(options.key)
     THEN LET r == getDataByKey(data, options.key.v)
          IN /\ IF IsThrow(r) THEN Fail(r.v) /\ refs' = Undef
                ELSE /\ ret' = r /\ pc' = "filter" /\ err' = err
                     /\ refs' = getDataByKey(Ref(data, <<>>), options.key.v)
             /\ stages' = Append(stages, "key")
     ELSE pc' = "filter" /\ UNCHANGED <<ret, err, stages, refs>>
  /\ UNCHANGED <<data, options, invoked>>

(* ret = options.key ? getDataByKey(ret, options.key) : ret *)
GetDataByKey ==
  /\ pc = "key"
  /\ IF Truthy(options.key)
     THEN LET r == getDataByKey(ret, options.key.v)
          IN /\ IF IsThrow(r) THEN Fail(r.v) /\ refs' = Undef
                ELSE /\ ret' = r /\ pc' = "filter" /\ err' = err
                     /\ refs' = getDataByKey(refs, options.key.v)
             /\ stages' = Append(stages, "key")
     ELSE pc' = "filter" /\ UNCHANGED <<ret, err, stages, refs>>
  /\ UNCHANGED <<data, options, invoked>>

(* ret = options.filterByKeys ? filterDataByKeys(ret, options.filterByKeys) : ret *)
FilterDataByKeys ==
  /\ pc = "filter"
  /\ IF Truthy(options.filterByKeys)
     THEN LET r == filterDataByKeys(ret, options.filterByKeys.v)
          IN /\ IF IsThrow(r) THEN Fail(r.v) /\ refs' = Undef
                ELSE /\ ret' = r /\ pc' = "rename" /\ err' = err
                     /\ refs' = filterDataByKeysRefs(refs, options.filterByKeys.v)
             /\ data' = DeleteAt(data, <<>>, Deletions(refs, options.filterByKeys.v))
             /\ stages' = Append(stages, "filter")
     ELSE pc' = "rename" /\ UNCHANGED <<data, ret, err, stages, refs>>
  /\ UNCHANGED <<options, invoked>>

(* ret = options.renameKeysByPattern ? renameKeysInData(ret, ...) : ret *)
RenameKeysInData ==
  /\ pc = "rename"
  /\ IF Truthy(options.renameKeysByPattern)
     THEN LET r == renameKeysInData(ret, options.renameKeysByPattern.v)
          IN /\ IF IsThrow(r) THEN Fail(r.v) /\ refs' = Undef
                ELSE /\ ret' = r /\ pc' = "custom" /\ err' = err
                     /\ refs' = renameKeysInDataRefs(refs, options.renameKeysByPattern.v)
             /\ stages' = Append(stages, "rename")
     ELSE pc' = "custom" /\ UNCHANGED <<ret, err, stages, refs>>
  /\ UNCHANGED <<data, options, invoked>>

(* if (options.runCustomFunction) { ret = runCustomFunction(ret, ...) } return ret *)
RunCustomFunction ==
  /\ pc = "custom"
  /\ IF ~Truthy(options.runCustomFunction)
     THEN pc' = "done" /\ UNCHANGED <<ret, err, stages, invoked>>
     ELSE LET func == options.runCustomFunction.name
              args == customArgs(ret, options.runCustomFunction.args)
          IN /\ stages' = Append(stages, "custom")
             /\ IF argsHasData(options.runCustomFunction.args)
                THEN Fail(NamedArgumentError) /\ invoked' = invoked
                ELSE IF func \in Registry
                THEN /\ invoked' = func
                     /\ \E r \in RegistryOutcomes(args) :
                          IF IsThrow(r) THEN Fail(FailedPrefix \o r.v)
                          ELSE ret' = r /\ pc' = "done" /\ err' = err
                ELSE IF func \in InheritedFunctions
                THEN /\ invoked' = func
                     /\ ret' = InheritedCall(func, args)
                     /\ pc' = "done"
                     /\ err' = err
                ELSE Fail(FailedPrefix \o NotAFunction) /\ invoked' = invoked
  /\ UNCHANGED <<data, options, refs>>

Next ==
  \/ Reduce
  \/ GetDataByKey
  \/ FilterDataByKeys
  \/ RenameKeysInData
  \/ RunCustomFunction

Spec == Init /\ [][Next]_vars

----------------------------------------------------------------------------
(* Properties *)

(* the options normalizeData hands to reduceData *)
reduceDataOptions == [convertArrayToMap |-> options.convertArrayToMap]

(* reduceData has just returned *)
Reduced == pc = "key" /\ stages = <<"reduce">>

(* C1: reduction is idempotent: reducing the value reduceData returned,    *)
(* with the same options, gives that value again.                          *)
C1_ReduceIdempotent ==
  Reduced => DeepEqual(reduceData(ret, reduceDataOptions), ret)

C1_Witness ==
  /\ Reduced
  /\ ~DeepEqual(ret, data)
  /\ catmOn(options)
  /\ data.t = "map"

(* C2 as stated: the entries key loses the host, the mgmt/tm/ and the      *)
(* sys/ prefix, so the two payloads reduce to {"foo": 1} and to            *)
(* {"tmm-info/0.0/stats": {"oneMinAverageSystem": 5}}.                     *)
C2_Original ==
  /\ (Reduced /\ data = ExEntries) => DeepEqual(ret, Obj(<< <<"foo", Num(1)>> >>))
  /\ (pc = "done" /\ data = ExTmmInfo /\ options = NoOptions) =>
       DeepEqual(ret, Obj(<< <<"tmm-info/0.0/stats",
                                Obj(<< <<"oneMinAverageSystem", Num(5)>> >>)>> >>))

(* the node is a mapping whose entries value is a mapping, and neither it   *)
(* nor the mapping of its stripped entries is a sole scaffold wrapper or    *)
(* has an entries value of its own                                          *)
IsSoleScaffold(d) ==
  d.t = "map" /\ Len(d.v) = 1 /\ \E i \in 1..Len(keysToReduce) : d.v[1][1] = keysToReduce[i]

StrippedKeys(e) ==
  {Replace(Replace(e[i][1], "https://localhost/", ""), "mgmt/tm/", "") : i \in 1..Len(e)}

PlainEntriesContainer(d) ==
  /\ d.t = "map"
  /\ ~IsSoleScaffold(d)
  /\ Get(d.v, "entries").t = "map"
  /\ LET e == Get(d.v, "entries").v
     IN /\ Cardinality(StrippedKeys(e)) = Len(e)
        /\ "entries" \notin StrippedKeys(e)
        /\ ~(Len(e) = 1 /\ \E i \in 1..Len(keysToReduce) : keysToReduce[i] \in StrippedKeys(e))

(* C2 (amended): reducing an entries container maps each entries key, with  *)
(* the prefixes 'https://localhost/' and 'mgmt/tm/' stripped (nothing       *)
(* else), to the fully reduced child; the two payloads reduce to            *)
(* {"sys/foo": 1} and {"sys/tmm-info/0.0/stats": {"oneMinAverageSystem": 5}} *)
C2_EntriesStripped ==
  /\ (Reduced /\ data = ExEntries) => DeepEqual(ret, Obj(<< <<"sys/foo", Num(1)>> >>))
  /\ (pc = "done" /\ data = ExTmmInfo /\ options = NoOptions) =>
       DeepEqual(ret, Obj(<< <<"sys/tmm-info/0.0/stats",
                                Obj(<< <<"oneMinAverageSystem", Num(5)>> >>)>> >>))
  /\ (Reduced /\ PlainEntriesContainer(data)) =>
       LET e == Get(data.v, "entries").v
       IN /\ ret.t = "map"
          /\ KeySet(ret.v) = StrippedKeys(e)
          /\ \A i \in 1..Len(e) :
               DeepEqual(Get(ret.v, Replace(Replace(e[i][1], "https://localhost/", ""),
                                            "mgmt/tm/", "")),
                         reduceData(e[i][2], reduceDataOptions))

C2_Witness ==
  /\ pc = "done" /\ data = ExTmmInfo /\ options = NoOptions
  /\ HasKey(ret.v, "sys/tmm-info/0.0/stats")

PivotKeys(d, c) ==
  {c.keyNamePrefix \o Get(d.v[i].v, c.keyName).v : i \in 1..Len(d.v)}

Pivotable(d, c) ==
  /\ d.t = "seq"
  /\ Len(d.v) >= 2
  /\ \A i \in 1..Len(d.v) : d.v[i].t = "map" /\ Get(d.v[i].v, c.keyName).t = "str"
  /\ Cardinality(PivotKeys(d, c)) = Len(d.v)
  /\ "entries" \notin PivotKeys(d, c)

ArgsNameData ==
  /\ options.runCustomFunction.t = "rcf"
  /\ options.runCustomFunction.args.t = "map"
  /\ \E i \in 1..Len(options.runCustomFunction.args.v) :
       options.runCustomFunction.args.v[i][1] = "data"

(* C4: when runCustomFunction.args is a mapping containing the key "data",  *)
(* the call never returns a value and never invokes a function, and the     *)
(* custom-function stage fails with the named-argument error.               *)
C4_DataArgRejected ==
  ArgsNameData =>
    /\ pc # "done"
    /\ invoked = ""
    /\ (pc = "failed" => ret = Undef /\ err # "")
    /\ (\E i \in 1..Len(stages) : stages[i] = "custom") =>
         pc = "failed" /\ err = NamedArgumentError

C4_Witness ==
  /\ ArgsNameData
  /\ options.runCustomFunction.name \in Registry
  /\ pc = "failed"
  /\ err = NamedArgumentError

HasFailedPrefix(m) ==
  Len(m) >= Len("runCustomFunction failed") /\
  SubSeq(m, 1, Len("runCustomFunction failed")) = "runCustomFunction failed"

CustomRan == \E i \in 1..Len(stages) : stages[i] = "custom"

(* C5: in the custom-function stage, a name that is not a function of the   *)
(* registry, or a failure of the invoked function, ends the call with an    *)
(* error whose message begins with "runCustomFunction failed"; the stage    *)
(* returns no value then.                                                   *)
C5_Original ==
  /\ (CustomRan /\ ~ArgsNameData
        /\ options.runCustomFunction.name \notin {"getFirstKey", "getSum"}) =>
       pc = "failed" /\ HasFailedPrefix(err)
  /\ (CustomRan /\ ~ArgsNameData /\ pc = "failed") => HasFailedPrefix(err)

(* the walk of the key path as C6 states it: descend while the node is a    *)
(* mapping that has the segment, the sentinel from then on                  *)
MappingWalk(d, keys) ==
  LET F[n \in 0..Len(keys)] ==
        IF n = 0 THEN d
        ELSE IF F[n - 1].t = "map" /\ HasKey(F[n - 1].v, keys[n])
             THEN Get(F[n - 1].v, keys[n])
             ELSE MissingKey
  IN F[Len(keys)]

(* C6: getDataByKey returns the value at the path when every segment is a   *)
(* key of the mapping reached so far and the sentinel 'missing key'         *)
(* otherwise (also below a scalar or a sequence), without raising and       *)
(* without changing the tree.                                               *)
C6_Original ==
  [][(pc = "key" /\ Truthy(options.key)) =>
       /\ pc' = "filter"
       /\ ret' = MappingWalk(ret, Split(options.key.v, "::"))
       /\ data' = data]_vars

RECURSIVE SubstringFilter(_, _)
(* the filter as C7 states it, up to the order of the keys *)
SubstringFilter(x, keys) ==
  CASE x.t = "map" ->
         LET kept == {k \in KeySet(x.v) : \E j \in 1..Len(keys) : Includes(k, keys[j])}
         IN [t |-> "map", v |-> [k \in kept |-> SubstringFilter(Get(x.v, k), keys)]]
    [] OTHER -> Canon(x)

(* C7: filterDataByKeys keeps a key of a mapping exactly when some entry of *)
(* the include list is a case-sensitive substring of it, filters the kept   *)
(* subtrees by the same rule, and returns sequences and scalars as they     *)
(* are; {"cpuUtil":1,"memUtil":2,"other":3} filtered by ["Util"] is         *)
(* {"cpuUtil":1,"memUtil":2}.                                               *)
C7_FilterBySubstring ==
  [][(pc = "filter" /\ Truthy(options.filterByKeys)) =>
       /\ pc' = "rename"
       /\ Canon(ret') = SubstringFilter(ret, options.filterByKeys.v)
       /\ (ret.t # "map" => ret' = ret)
       /\ (ret = ExFilter /\ options.filterByKeys.v = <<"Util">> =>
             DeepEqual(ret', Obj(<< <<"cpuUtil", Num(1)>>, <<"memUtil", Num(2)>> >>)))
       /\ (ret = ExFilter /\ options.filterByKeys.v = <<"util">> =>
             ret' = Obj(<<>>))]_vars

C7_Witness ==
  /\ pc = "rename"
  /\ stages = <<"reduce", "filter">>
  /\ data = ExFilter
  /\ KeySet(ret.v) = {"cpuUtil", "memUtil"}

(* the patterns that apply to k: the trigger occurs in k and the regex      *)
(* matches k                                                                *)
Applying(k, patterns) ==
  {n \in 1..Len(patterns) :
     Includes(k, patterns[n][1]) /\ Match(k, patternOf(patterns[n][2])) # NoMatch}

(* the new key of k as C8 states it: the group of the last applying pattern *)
StatedKey(k, patterns) ==
  IF Applying(k, patterns) = {} THEN k
  ELSE LET n == CHOOSE n \in Applying(k, patterns) : \A m \in Applying(k, patterns) : m <= n
       IN GroupKey(Match(k, patternOf(patterns[n][2])), groupOf(patterns[n][2]))

RenameStep == pc = "rename" /\ Truthy(options.renameKeysByPattern) /\ ret.t = "map"

(* C8 as stated: a key is renamed only when a pattern applies, to the group *)
(* of the last applying pattern; the original key of a renamed key is       *)
(* absent from the output; a key no pattern applies to is kept.             *)
C8_Original ==
  [][RenameStep =>
       LET ps == options.renameKeysByPattern.v
       IN /\ ret'.t = "map"
          /\ \A k \in KeySet(ret.v) :
               /\ StatedKey(k, ps) \in KeySet(ret'.v)
               /\ Applying(k, ps) # {} => k \notin KeySet(ret'.v)
               /\ Applying(k, ps) = {} => k \in KeySet(ret'.v)
          /\ (ret = ExRename /\ ps = <<PGroup1>> => ret' = Obj(<< <<"0", Num(5)>> >>))]_vars

(* C8 (amended): as stated, except that the original key of a renamed key   *)
(* is absent from the output only if it is not itself the new key of a key  *)
(* of the same mapping (as when the selected group is the whole key); and   *)
(* the output has no other keys than the new keys.                          *)
C8_RenameLastWins ==
  [][RenameStep =>
       LET ps == options.renameKeysByPattern.v
           new == {StatedKey(k, ps) : k \in KeySet(ret.v)}
       IN /\ ret'.t = "map"
          /\ KeySet(ret'.v) = new
          /\ \A k \in KeySet(ret.v) :
               /\ (Applying(k, ps) # {} /\ k \notin new) => k \notin KeySet(ret'.v)
               /\ Applying(k, ps) = {} => k \in KeySet(ret'.v)
          /\ (ret = ExRename /\ ps = <<PGroup1>> => ret' = Obj(<< <<"0", Num(5)>> >>))]_vars

C8_Witness ==
  /\ pc = "custom"
  /\ stages = <<"reduce", "rename">>
  /\ options.renameKeysByPattern.v = <<PGroup1, PBare>>
  /\ data = ExRename
  /\ ret = Obj(<< <<"tmm", Num(5)>> >>)

(* the value normalizeData holds after the stages before the custom         *)
(* function, composed in the order reduce, key, filter, rename              *)
Staged(upto) ==
  LET r1 == reduceData(data, reduceDataOptions)
      r2 == IF Truthy(options.key) THEN getDataByKey(r1, options.key.v) ELSE r1
      r3 == IF Truthy(options.filterByKeys)
            THEN filterDataByKeys(r2, options.filterByKeys.v) ELSE r2
      r4 == IF Truthy(options.renameKeysByPattern)
            THEN renameKeysInData(r3, options.renameKeysByPattern.v) ELSE r3
  IN CASE upto = "key" -> r1
       [] upto = "filter" -> r2
       [] upto = "rename" -> r3
       [] OTHER -> r4

StageRank(n) ==
  CASE n = "reduce" -> 1 [] n = "key" -> 2 [] n = "filter" -> 3
    [] n = "rename" -> 4 [] n = "custom" -> 5

StageOption(n) ==
  CASE n = "key" -> options.key
    [] n = "filter" -> options.filterByKeys
    [] n = "rename" -> options.renameKeysByPattern
    [] n = "custom" -> options.runCustomFunction

(* C9: the stages run in the order reduce, key, filter, rename, custom:     *)
(* reduce first, a later stage exactly when its option is set, each on the  *)
(* output of the last stage that ran; the custom function receives the      *)
(* output of the last executed stage.                                       *)
C9_StageOrder ==
  /\ (stages # <<>> => stages[1] = "reduce")
  /\ \A i \in 1..Len(stages) : \A j \in 1..Len(stages) :
       i < j => StageRank(stages[i]) < StageRank(stages[j])
  /\ \A i \in 2..Len(stages) : Truthy(StageOption(stages[i]))
  /\ \A n \in {"key", "filter", "rename", "custom"} :
       (pc = "done" /\ Truthy(StageOption(n))) => \E i \in 1..Len(stages) : stages[i] = n
  /\ pc \in {"key", "filter", "rename", "custom"} => ret = Staged(pc)
  /\ (pc = "done" /\ ~Truthy(options.runCustomFunction)) => ret = Staged("custom")
  /\ (pc = "done" /\ invoked = "constructor") => Get(ret.v, "data") = Staged("custom")

C9_Witness ==
  /\ pc = "done"
  /\ stages = <<"reduce", "key", "filter", "rename", "custom">>
  /\ invoked = "constructor"
  /\ Get(ret.v, "data") # data

(* C10: renameKeysInData returns a tree of the same shape: the output       *)
(* mapping has exactly as many keys as the input mapping, one per input     *)
(* key.                                                                     *)
C10_Original ==
  [][RenameStep => ret'.t = "map" /\ Len(ret'.v) = Len(ret.v)]_vars

RenameStage == pc = "rename" /\ Truthy(options.renameKeysByPattern)

(* C11 as stated: renameKeysInData on a sequence keeps its length and order *)
(* and renames the keys of every mapping nested inside it, as it renames    *)
(* those of a mapping outside a sequence.                                   *)
C11_Original ==
  [][(RenameStage /\ ret.t = "seq") =>
       ret' = renameKeysInDataDeep(ret, options.renameKeysByPattern.v)]_vars

(* C11 (amended): renameKeysInData returns a sequence as it is: the         *)
(* sequence keeps its length and order, and no mapping nested inside it (at *)
(* any depth) has a key renamed; this holds of a sequence that is the       *)
(* value of a key of a renamed mapping too.                                 *)
C11_SequenceUntouched ==
  [][RenameStage =>
       /\ ret.t = "seq" => ret' = ret
       /\ ret.t = "map" =>
            LET ps == options.renameKeysByPattern.v
            IN \A i \in 1..Len(ret.v) :
                 (/\ ret.v[i][2].t = "seq"
                  /\ \A j \in 1..Len(ret.v) :
                       j # i => StatedKey(ret.v[j][1], ps) # StatedKey(ret.v[i][1], ps))
                 => Get(ret'.v, StatedKey(ret.v[i][1], ps)) = ret.v[i][2]]_vars

C11_Witness ==
  /\ pc = "custom"
  /\ stages = <<"reduce", "rename">>
  /\ options.renameKeysByPattern.v = <<PGroup1>>
  /\ data = ExSeqOfMaps
  /\ ret = ExSeqOfMaps

(* options.convertArrayToMap.keyName is set *)
KeyNameSet ==
  options.convertArrayToMap.t = "catm" /\ options.convertArrayToMap.keyName # ""

(* a mapping with exactly one key, which is not a scaffold key *)
SingleOtherKey(d) == d.t = "map" /\ Len(d.v) = 1 /\ ~IsSoleScaffold(d)

(* C12 as stated: for every options value reduceData of an empty sequence   *)
(* is an empty sequence and of an empty mapping an empty mapping, and a     *)
(* mapping with exactly one non-scaffold key reduces to a mapping with that *)
(* single key holding the reduced value.                                    *)
C12_Original ==
  /\ data \in {Arr(<<>>), Obj(<<>>)} => ~(pc = "failed" /\ stages = <<"reduce">>)
  /\ (Reduced /\ data \in {Arr(<<>>), Obj(<<>>)}) => ret = data
  /\ (Reduced /\ SingleOtherKey(data)) =>
       /\ ret.t = "map"
       /\ KeySet(ret.v) = {data.v[1][1]}
       /\ DeepEqual(ret.v[1][2], reduceData(data.v[1][2], reduceDataOptions))

(* C12 (amended): reduceData of an empty mapping is an empty mapping for    *)
(* every options value; reduceData of an empty sequence is an empty         *)
(* sequence unless convertArrayToMap.keyName is set, and the empty mapping  *)
(* when it is set; a mapping with exactly one key that is neither a         *)
(* scaffold key nor the key entries with a truthy value reduces to a        *)
(* mapping with that single key holding the reduced value.                  *)
C12_EmptyAndSingleKey ==
  /\ data \in {Arr(<<>>), Obj(<<>>)} => ~(pc = "failed" /\ stages = <<"reduce">>)
  /\ (Reduced /\ data = Obj(<<>>)) => ret = Obj(<<>>)
  /\ (Reduced /\ data = Arr(<<>>)) =>
       ret = (IF KeyNameSet THEN Obj(<<>>) ELSE Arr(<<>>))
  /\ (Reduced /\ SingleOtherKey(data)
        /\ ~(data.v[1][1] = "entries" /\ Truthy(data.v[1][2]))) =>
       /\ ret.t = "map"
       /\ KeySet(ret.v) = {data.v[1][1]}
       /\ DeepEqual(ret.v[1][2], reduceData(data.v[1][2], reduceDataOptions))

C12_Witness ==
  /\ Reduced
  /\ data = Arr(<<>>)
  /\ KeyNameSet
  /\ ret = Obj(<<>>)

ScaffoldKeys == {"nestedStats", "value", "description", "color"}

(* a mapping with exactly one key, which is a scaffold key *)
SoleWrapper(d) == d.t = "map" /\ Len(d.v) = 1 /\ d.v[1][1] \in ScaffoldKeys

(* C13: the scaffold unwrap fires exactly on a mapping whose only key is    *)
(* one of nestedStats, value, description, color, and gives the reduction   *)
(* of that key's value, so a chain of wrappers reduces to its innermost     *)
(* value ({"value": 5} to 5); a sequence (that is not pivoted) is reduced   *)
(* element by element, and a mapping with two or more keys and no entries   *)
(* key keeps its key set, also when one of its keys is a scaffold key.      *)
C13_ScaffoldUnwrap ==
  Reduced =>
    /\ SoleWrapper(data) =>
         DeepEqual(ret, reduceData(data.v[1][2], reduceDataOptions))
    /\ data = Obj(<< <<"value", Num(5)>> >>) => ret = Num(5)
    /\ data = ExChain => ret = Num(5)
    /\ (data.t = "seq" /\ ~KeyNameSet) =>
         /\ ret.t = "seq"
         /\ Len(ret.v) = Len(data.v)
         /\ \A i \in 1..Len(data.v) :
              DeepEqual(ret.v[i], reduceData(data.v[i], reduceDataOptions))
    /\ (data.t = "map" /\ Len(data.v) >= 2 /\ ~HasKey(data.v, "entries")) =>
         /\ ret.t = "map"
         /\ KeySet(ret.v) = KeySet(data.v)

C13_Witness ==
  /\ Reduced
  /\ data = ExChain
  /\ ret = Num(5)

(* the reduce stage raised *)
ReduceRaised == pc = "failed" /\ stages = <<"reduce">>

(* a mapping whose entries value is not a mapping, or that has other keys  *)
(* next to entries                                                         *)
Malformed(d) ==
  /\ d.t = "map"
  /\ HasKey(d.v, "entries")
  /\ (Get(d.v, "entries").t # "map" \/ Len(d.v) >= 2)

(* every key of the input is kept and holds the reduction of its value *)
GenericRule ==
  /\ ret.t = "map"
  /\ KeySet(ret.v) = KeySet(data.v)
  /\ \A i \in 1..Len(data.v) :
       DeepEqual(Get(ret.v, data.v[i][1]), reduceData(data.v[i][2], reduceDataOptions))

NoCustomFunction == ~Truthy(options.runCustomFunction)

(* refs is the tree ret with the identity of each container *)
Tracked == pc \in {"key", "filter", "rename", "custom"}

(* C15: without runCustomFunction no step of normalizeData changes the      *)
(* caller's input tree, whatever key, filterByKeys, renameKeysByPattern     *)
(* and convertArrayToMap are: no container of the tree reduceData returns   *)
(* (nor of the tree a later stage works on) is a container of the input,    *)
(* so the keys filterDataByKeys deletes in place are keys of the copy.      *)
C15_InputUntouched ==
  [][/\ (pc = "reduce" /\ pc' = "key") =>
          (Strip(refs') = ret' /\ InputIds(refs') = {})
     /\ NoCustomFunction =>
          /\ data' = data
          /\ Tracked' => (Strip(refs') = ret' /\ InputIds(refs') = {})]_vars

C15_Witness ==
  /\ pc = "rename" /\ stages = <<"reduce", "filter">>
  /\ NoCustomFunction
  /\ data = ExFilter
  /\ ret = Obj(<< <<"cpuUtil", Num(1)>>, <<"memUtil", Num(2)>> >>)

====
